---------------------------- MODULE Spec2Model ----------------------------
(***************************************************************************)
(* pyactivetwo: client for the Biosemi ActiveTwo TCP stream.               *)
(*                                                                         *)
(* The module models src/pyactivetwo/client.py: the trigger-word decoder   *)
(* (is_set, decode_trigger, SPEED_MODE), the constructor of                *)
(* ActiveTwoClient (rate check, tcp_samples, slices, n_channels,           *)
(* buffer_size), connect, the frame decoder _read and the read loop,       *)
(* together with the socket the client reads from.                         *)
(*                                                                         *)
(* Python values are modelled as follows.  A call that can raise returns a *)
(* record [raised, value]; raised = "none" means a normal return.  A 2-D   *)
(* array is a sequence of rows, each row a sequence of cells (index i of   *)
(* Python is index i+1 here).  A bytes object is a sequence of 0..255.     *)
(***************************************************************************)
EXTENDS Integers, Sequences, FiniteSets, TLC

(***************************************************************************)
(* Bounds of the model.                                                    *)
(***************************************************************************)
\* eeg_channels is drawn from 0..MaxEeg
MaxEeg == 1
\* read(duration) is called with duration = q / DurationUnit seconds,
\* q in -MaxDur..MaxDur
MaxDur == 6
DurationUnit == 512
\* number of read() calls made on one client
MaxReads == 2
\* a short recv returns 0..MaxShort bytes (and always fewer than asked)
MaxShort == 2
\* sampling rates tried by the rate check range over 0..MaxFs
MaxFs == 16500
\* frame decoding is tried with 1..MaxFrameChan channels
MaxFrameChan == 2

(***************************************************************************)
(* Integer helpers for Python's operators on non-negative ints.            *)
(***************************************************************************)
\* 1 << n
Shl1(n) == 2 ^ n

\* x & mask for the mask 2^k - 1 of the k low bits
LowBits(x, k) == x % (2 ^ k)

\* int(b) for a bool b
BoolInt(b) == IF b THEN 1 ELSE 0

\* ceil(a / b) for b > 0
CeilDiv(a, b) == -((-a) \div b)

\* Python 3 round() of the exact rational num/den (den > 0): to nearest,
\* ties to even
PyRound(num, den) ==
    LET fl == num \div den
        rem == num % den
    IN  IF 2 * rem < den THEN fl
        ELSE IF 2 * rem > den THEN fl + 1
        ELSE IF fl % 2 = 0 THEN fl ELSE fl + 1

\* storing a Python int in an int32 cell of a numpy array: a value up to
\* 2^31 - 1 is stored as it is, a larger one does not fit (it wraps around)
ToInt32(v) ==
    IF v <= 2147483647 THEN v ELSE v - 2147483647 - 2147483647 - 2

(***************************************************************************)
(* Trigger word decoder.                                                   *)
(***************************************************************************)
SPEED_MODE ==
    [s \in 0..7 |->
        CASE s = 0 -> 2048
          [] s = 1 -> 4096
          [] s = 2 -> 8192
          [] s = 3 -> 16384
          [] s = 4 -> 2048
          [] s = 5 -> 4096
          [] s = 6 -> 8192
          [] s = 7 -> 16384]

\* (x & (1 << bit)) != 0
is_set(x, bit) == (x \div Shl1(bit)) % 2 = 1

speed_mode_of(x) ==
    BoolInt(is_set(x, 17)) * Shl1(0) +
    BoolInt(is_set(x, 18)) * Shl1(1) +
    BoolInt(is_set(x, 19)) * Shl1(2) +
    BoolInt(is_set(x, 21)) * Shl1(3)

\* The dict display is evaluated entry by entry; the last entry indexes
\* SPEED_MODE and raises KeyError when the key is not in the table, in which
\* case no dict is returned.
decode_trigger(x) ==
    LET speed_mode == speed_mode_of(x)
    IN  IF speed_mode \in DOMAIN SPEED_MODE
        THEN [raised |-> "none",
              value  |-> [trigger      |-> LowBits(x, 16),
                          cms_in_range |-> is_set(x, 20),
                          low_battery  |-> is_set(x, 22),
                          ActiveMK2    |-> is_set(x, 23),
                          speed_mode   |-> speed_mode,
                          new_epoch    |-> is_set(x, 16),
                          fs           |-> SPEED_MODE[speed_mode]]]
        ELSE [raised |-> "KeyError"]

(***************************************************************************)
(* ActiveTwoClient.__init__                                                *)
(***************************************************************************)
\* the rate check without the test of the decimation factor
InvalidRate_RangeOnly(fs) == ~(256 <= fs /\ fs <= 16384)

\* the two rate checks that raise ValueError
InvalidRate(fs) ==
    \/ ~(256 <= fs /\ fs <= 16384)
    \/ (16384 \div fs) * fs # 16384

\* decimation_factor = 16384 / fs; tcp_samples = int(128 / decimation_factor)
tcp_samples_of(fs) ==
    LET decimation_factor == 16384 \div fs
    IN  128 \div decimation_factor

\* np.s_[start:stop] and np.s_[i]
Slice(start, stop) == [kind |-> "slice", start |-> start, stop |-> stop]
Index(i) == [kind |-> "index", index |-> i]

\* n_channels after each "if ..._included" block, in the order of the code
n_after_eeg(a) == IF a.eeg_channels # 0 THEN 0 + a.eeg_channels ELSE 0
n_after_ex(a) == IF a.ex_included THEN n_after_eeg(a) + 8 ELSE n_after_eeg(a)
n_after_sensors(a) ==
    IF a.sensors_included THEN n_after_ex(a) + 7 ELSE n_after_ex(a)
\* the jazz group counted with the width of the ex group
n_after_jazz_Width8(a) ==
    IF a.jazz_included THEN n_after_sensors(a) + 8 ELSE n_after_sensors(a)

n_after_jazz(a) ==
    IF a.jazz_included THEN n_after_sensors(a) + 9 ELSE n_after_sensors(a)
n_after_aib(a) ==
    IF a.aib_included THEN n_after_jazz(a) + 32 ELSE n_after_jazz(a)
n_after_trigger(a) ==
    IF a.trigger_included THEN n_after_aib(a) + 1 ELSE n_after_aib(a)

\* the trigger taken from the first row
trigger_slice_First == Index(0)

\* slices['trigger'] = np.s_[-1]
trigger_slice == Index(-1)

\* the slices dict: a key is present only when its group is included
build_slices(a) ==
    LET keys == (IF a.eeg_channels # 0 THEN {"eeg"} ELSE {})
                \cup (IF a.ex_included THEN {"ex"} ELSE {})
                \cup (IF a.sensors_included THEN {"sensors"} ELSE {})
                \cup (IF a.jazz_included THEN {"jazz"} ELSE {})
                \cup (IF a.aib_included THEN {"aib"} ELSE {})
                \cup (IF a.trigger_included THEN {"trigger"} ELSE {})
    IN  [k \in keys |->
            CASE k = "eeg"     -> Slice(0, a.eeg_channels)
              [] k = "ex"      -> Slice(n_after_eeg(a), n_after_eeg(a) + 8)
              [] k = "sensors" -> Slice(n_after_ex(a), n_after_ex(a) + 7)
              [] k = "jazz"    -> Slice(n_after_sensors(a), n_after_sensors(a) + 9)
              [] k = "aib"     -> Slice(n_after_jazz(a), n_after_jazz(a) + 32)
              [] k = "trigger" -> trigger_slice]

\* a: the keyword arguments.  Returns the attributes of the new object, or
\* raises ValueError.  sock is not set by __init__ ("none" until connect()).
ActiveTwoClient(a) ==
    IF InvalidRate(a.fs)
    THEN [raised |-> "ValueError"]
    ELSE [raised |-> "none",
          value  |-> [eeg_channels     |-> a.eeg_channels,
                      ex_included      |-> a.ex_included,
                      sensors_included |-> a.sensors_included,
                      jazz_included    |-> a.jazz_included,
                      aib_included     |-> a.aib_included,
                      trigger_included |-> a.trigger_included,
                      fs               |-> a.fs,
                      tcp_samples      |-> tcp_samples_of(a.fs),
                      slices           |-> build_slices(a),
                      n_channels       |-> n_after_trigger(a),
                      buffer_size      |-> n_after_trigger(a) * tcp_samples_of(a.fs) * 3,
                      sock             |-> "none"]]

(***************************************************************************)
(* ActiveTwoClient._read: decoding of one frame                            *)
(***************************************************************************)
\* offset = m * 3 * self.n_channels + (channel * 3)
sample_offset(m, channel, n_channels) == m * 3 * n_channels + (channel * 3)

\* the three bytes taken in the order they arrive (most significant first)
sample_at_BigEndian(buf, offset) ==
    buf[offset + 1] * 65536 + buf[offset + 1 + 1] * 256 + buf[offset + 2 + 1]

\* (data[offset+2] << 16) + (data[offset+1] << 8) + (data[offset]);
\* buf[i] of Python is buf[i+1] here
sample_at(buf, offset) ==
    buf[offset + 2 + 1] * 65536 + buf[offset + 1 + 1] * 256 + buf[offset + 1]

\* buf: the bytes recv returned.  Indexing past the end of buf raises
\* IndexError; otherwise the n_channels x tcp_samples int32 array is returned.
read_frame(buf, n_channels, tcp_samples) ==
    IF \E m \in 0..(tcp_samples - 1), channel \in 0..(n_channels - 1) :
           sample_offset(m, channel, n_channels) + 2 >= Len(buf)
    THEN [raised |-> "IndexError"]
    ELSE [raised |-> "none",
          value  |-> [c \in 1..n_channels |->
                        [m \in 1..tcp_samples |->
                            ToInt32(sample_at(buf,
                                sample_offset(m - 1, c - 1, n_channels)))]]]

(***************************************************************************)
(* The end of ActiveTwoClient.read: concatenation and slicing              *)
(***************************************************************************)
RECURSIVE ConcatRow(_, _)
\* row c of np.concatenate(frames, axis=-1)
ConcatRow(frames, c) ==
    IF frames = <<>> THEN <<>>
    ELSE Head(frames)[c] \o ConcatRow(Tail(frames), c)

\* the empty list of frames left as it is, without rows
assemble_NoEmptyMatrix(frames, n_channels) ==
    IF frames # <<>>
    THEN [c \in 1..n_channels |-> ConcatRow(frames, c)]
    ELSE <<>>

\* "if data: np.concatenate(data, axis=-1) else: np.empty((n_channels, 0))"
assemble(frames, n_channels) ==
    IF frames # <<>>
    THEN [c \in 1..n_channels |-> ConcatRow(frames, c)]
    ELSE [c \in 1..n_channels |-> <<>>]

\* matrix[s] for a slice with start, stop >= 0: rows start..min(stop, rows)-1
\* as a 2-D array; for an index i: row i (negative i counts from the end) as
\* a 1-D array, IndexError when out of range.
getitem(matrix, s) ==
    LET rows == Len(matrix)
    IN  IF s.kind = "slice"
        THEN LET lo == IF s.start < rows THEN s.start ELSE rows
                 hi == IF s.stop < rows THEN s.stop ELSE rows
                 cnt == IF hi > lo THEN hi - lo ELSE 0
             IN  [raised |-> "none", ndim |-> 2,
                  value |-> [i \in 1..cnt |-> matrix[lo + i]]]
        ELSE LET i == IF s.index < 0 THEN s.index + rows ELSE s.index
             IN  IF i < 0 \/ i >= rows
                 THEN [raised |-> "IndexError"]
                 ELSE [raised |-> "none", ndim |-> 1, value |-> matrix[i + 1]]

\* {k: data[s] for k, s in self.slices.items()}
slice_groups(matrix, slices) ==
    IF \E k \in DOMAIN slices : getitem(matrix, slices[k]).raised # "none"
    THEN [raised |-> "IndexError"]
    ELSE [raised |-> "none",
          value |-> [k \in DOMAIN slices |-> getitem(matrix, slices[k])]]

(***************************************************************************)
(* The device side of the socket.  The device writes, for every sample     *)
(* time t and then every channel ch, one sample as 3 little-endian bytes.  *)
(* The sample of channel ch at time t carries ch in its high byte, t in    *)
(* its middle byte and 255 in its low byte.                                *)
(***************************************************************************)
\* byte b (0 = least significant) of the 3-byte encoding of v
le_byte(v, b) == (v \div (256 ^ b)) % 256

DeviceSample(ch, t) == ch * 65536 + (t % 256) * 256 + 255

\* the byte at offset o of the stream of a device with n_channels channels
StreamByte(o, n_channels) ==
    LET t  == o \div (3 * n_channels)
        ch == (o % (3 * n_channels)) \div 3
    IN  le_byte(DeviceSample(ch, t), o % 3)

\* the k bytes a recv returns when the socket stands at offset o
StreamBytes(o, k, n_channels) ==
    [i \in 1..k |-> StreamByte(o + i - 1, n_channels)]

\* the frame of a whole matrix (rows = channels) as the device writes it
encode_frame(matrix, n_channels, tcp_samples) ==
    [i \in 1..(n_channels * tcp_samples * 3) |->
        LET o  == i - 1
            m  == o \div (3 * n_channels)
            ch == (o % (3 * n_channels)) \div 3
        IN  le_byte(matrix[ch + 1][m + 1], o % 3)]

(***************************************************************************)
(* State                                                                   *)
(***************************************************************************)
VARIABLES
    pc,             \* "new", "failed" (constructor raised), "idle",
                    \* "reading" (inside the while loop of read), "pure"
    self,           \* the attributes of the ActiveTwoClient object
    raised,         \* the exception the last call raised to its caller
    pos,            \* offset in the device's stream of the next byte recv gets
    reads,          \* number of read() calls made so far
    total_samples,  \* local of read
    samples,        \* local of read
    data,           \* local of read: the list of decoded frames
    frame_pos,      \* for each frame in data, the stream offset it began at
    recvs,          \* number of sock.recv calls made by the current read
    result,         \* what the last read() returned (NotCalled while a
                    \* read is in progress)
    arg,            \* argument of a function applied on its own
    ret             \* and what it returned

client_vars == <<pc, self, raised, pos, reads, total_samples, samples, data,
                 frame_pos, recvs, result>>
vars == <<pc, self, raised, pos, reads, total_samples, samples, data,
          frame_pos, recvs, result, arg, ret>>

NotCalled == [raised |-> "not called"]

\* arguments the constructor is called with: every combination of groups, at
\* the rate 256 and at rates the constructor rejects
FsInputs == {255, 256, 300, 32768}
InitArgs ==
    [eeg_channels : 0..MaxEeg, ex_included : BOOLEAN,
     sensors_included : BOOLEAN, jazz_included : BOOLEAN,
     aib_included : BOOLEAN, trigger_included : BOOLEAN, fs : FsInputs]

\* durations read is called with, in units of 1/DurationUnit second
Durations == (-MaxDur)..MaxDur

Init ==
    /\ pc = "new"
    /\ self = [sock |-> "none"]
    /\ raised = "none"
    /\ pos = 0
    /\ reads = 0
    /\ total_samples = 0
    /\ samples = 0
    /\ data = <<>>
    /\ frame_pos = <<>>
    /\ recvs = 0
    /\ result = NotCalled
    /\ arg = <<>>
    /\ ret = NotCalled

(***************************************************************************)
(* Operations of the client                                                *)
(***************************************************************************)
\* client = ActiveTwoClient(**a)
Construct(a) ==
    /\ pc = "new"
    /\ LET r == ActiveTwoClient(a)
       IN  IF r.raised = "none"
           THEN /\ self' = r.value
                /\ pc' = "idle"
                /\ raised' = "none"
           ELSE /\ pc' = "failed"
                /\ raised' = r.raised
                /\ UNCHANGED self
    /\ UNCHANGED <<pos, reads, total_samples, samples, data, frame_pos,
                   recvs, result, arg, ret>>

\* client.connect(), called once per client: the connection is made and
\* the device's stream starts
connect ==
    /\ pc = "idle"
    /\ self.sock = "none"
    /\ self' = [self EXCEPT !.sock = "open"]
    /\ raised' = "none"
    /\ pos' = 0
    /\ UNCHANGED <<pc, reads, total_samples, samples, data, frame_pos,
                   recvs, result, arg, ret>>

\* the loop going on while samples <= total_samples
loop_continues_Inclusive(s, total) == s <= total

\* "while samples < total_samples"
loop_continues(s, total) == s < total

\* counting a frame as one sample
next_samples_One(s, tcp_samples) == s + 1

\* "samples += self.tcp_samples"
next_samples(s, tcp_samples) == s + tcp_samples

\* the code of read after its loop, for the list of frames fr
finish(fr) == slice_groups(assemble(fr, self.n_channels), self.slices)

\* leaving read with the list of frames fr
Return(fr) ==
    /\ pc' = "idle"
    /\ LET r == finish(fr)
       IN  /\ result' = r
           /\ raised' = r.raised

\* client.read(duration) up to its first recv, with duration =
\* q / DurationUnit
read(q) ==
    /\ pc = "idle"
    /\ reads < MaxReads
    /\ reads' = reads + 1
    /\ total_samples' = PyRound(q * self.fs, DurationUnit)
    /\ samples' = 0
    /\ data' = <<>>
    /\ frame_pos' = <<>>
    /\ recvs' = 0
    /\ IF loop_continues(0, total_samples')
       THEN /\ pc' = "reading"
            /\ raised' = "none"
            /\ result' = NotCalled
       ELSE Return(<<>>)
    /\ UNCHANGED <<self, pos, arg, ret>>

\* one pass of the while loop in which sock.recv returns k bytes
\* (k = buffer_size, or fewer: TCP delivers what has arrived, nothing when
\* the peer has closed)
recv_returns(k) ==
    /\ pc = "reading"
    /\ self.sock = "open"
    /\ \/ k = self.buffer_size
       \/ k < self.buffer_size /\ k <= MaxShort
    /\ recvs' = recvs + 1
    /\ pos' = pos + k
    /\ LET r == read_frame(StreamBytes(pos, k, self.n_channels),
                           self.n_channels, self.tcp_samples)
       IN  IF r.raised = "none"
           THEN /\ data' = Append(data, r.value)
                /\ frame_pos' = Append(frame_pos, pos)
                /\ samples' = next_samples(samples, self.tcp_samples)
                /\ IF loop_continues(samples', total_samples)
                   THEN UNCHANGED <<pc, raised, result>>
                   ELSE Return(data')
           ELSE /\ UNCHANGED <<data, frame_pos, samples>>
                /\ Return(data)
    /\ UNCHANGED <<self, reads, total_samples, arg, ret>>

\* one pass of the while loop in which self.sock.recv raises: there is no
\* sock attribute yet, the wait timed out, or the connection broke
recv_raises ==
    /\ pc = "reading"
    /\ recvs' = recvs + 1
    /\ Return(data)
    /\ UNCHANGED <<self, pos, reads, total_samples, samples, data, frame_pos,
                   arg, ret>>

Next ==
    \/ \E a \in InitArgs : Construct(a)
    \/ connect
    \/ \E q \in Durations : read(q)
    \/ \E k \in (0..MaxShort) \cup
                (IF pc = "reading" THEN {self.buffer_size} ELSE {}) :
           recv_returns(k)
    \/ recv_raises

Spec == Init /\ [][Next]_vars

\* The reads of clients already constructed, with the fairness the blocking
\* recv gives: a pass of the loop is completed once its recv returns or
\* raises.  The clients are those with an eeg or trigger group, at the
\* rates 256, 512 and 1024 (2, 4 and 8 samples a frame).
FairArgs ==
    [eeg_channels : 0..MaxEeg, ex_included : {FALSE},
     sensors_included : {FALSE}, jazz_included : {FALSE},
     aib_included : {FALSE}, trigger_included : BOOLEAN,
     fs : {256, 512, 1024}]

InitConstructed ==
    /\ pc = "idle"
    /\ self \in {ActiveTwoClient(a).value : a \in FairArgs}
    /\ raised = "none"
    /\ pos = 0
    /\ reads = 0
    /\ total_samples = 0
    /\ samples = 0
    /\ data = <<>>
    /\ frame_pos = <<>>
    /\ recvs = 0
    /\ result = NotCalled
    /\ arg = <<>>
    /\ ret = NotCalled

Recv ==
    \/ \E k \in (0..MaxShort) \cup
                (IF pc = "reading" THEN {self.buffer_size} ELSE {}) :
           recv_returns(k)
    \/ recv_raises

NextConstructed ==
    \/ connect
    \/ \E q \in Durations : read(q)
    \/ Recv

FairSpec == InitConstructed /\ [][NextConstructed]_vars /\ WF_vars(Recv)

(***************************************************************************)
(* Functions applied on their own                                          *)
(***************************************************************************)
PureInit ==
    /\ pc = "pure"
    /\ self = [sock |-> "none"]
    /\ raised = "none"
    /\ pos = 0
    /\ reads = 0
    /\ total_samples = 0
    /\ samples = 0
    /\ data = <<>>
    /\ frame_pos = <<>>
    /\ recvs = 0
    /\ result = NotCalled
    /\ ret = NotCalled

\* decode_trigger(arg) for 24-bit words: every value of the bits 16..23 with
\* some values of the trigger bits 0..15
TriggerWords == {hi * 65536 + lo : hi \in 0..255, lo \in {0, 1, 32768, 65535}}

InitTrig == PureInit /\ arg \in TriggerWords

CallDecodeTrigger ==
    /\ pc = "pure"
    /\ ret = NotCalled
    /\ ret' = decode_trigger(arg)
    /\ UNCHANGED <<client_vars, arg>>

SpecTrig == InitTrig /\ [][CallDecodeTrigger]_vars

\* ActiveTwoClient(fs=arg) with the defaults of the other arguments
DefaultArgs(fs) ==
    [eeg_channels |-> 32, ex_included |-> FALSE, sensors_included |-> FALSE,
     jazz_included |-> FALSE, aib_included |-> FALSE,
     trigger_included |-> FALSE, fs |-> fs]

InitRate == PureInit /\ arg \in 0..MaxFs

CallConstructor ==
    /\ pc = "pure"
    /\ ret = NotCalled
    /\ ret' = ActiveTwoClient(DefaultArgs(arg))
    /\ UNCHANGED <<client_vars, arg>>

SpecRate == InitRate /\ [][CallConstructor]_vars

\* _read on the frame the device writes for a matrix of 24-bit samples
SampleValues == {0, 1, 256, 65536, 8388608, 16777215}
FrameArgs ==
    UNION {[n_channels : {n}, tcp_samples : {tcp_samples_of(256)},
            matrix : [1..n -> [1..tcp_samples_of(256) -> SampleValues]]] :
           n \in 1..MaxFrameChan}

InitFrame == PureInit /\ arg \in FrameArgs

CallReadFrame ==
    /\ pc = "pure"
    /\ ret = NotCalled
    /\ ret' = read_frame(encode_frame(arg.matrix, arg.n_channels,
                                      arg.tcp_samples),
                         arg.n_channels, arg.tcp_samples)
    /\ UNCHANGED <<client_vars, arg>>

SpecFrame == InitFrame /\ [][CallReadFrame]_vars

(***************************************************************************)
(* Properties of the trigger word decoder (under SpecTrig)                 *)
(***************************************************************************)
\* the speed mode of a word as the bit table gives it: bits 17, 18, 19 are
\* its bits 0, 1, 2 and bit 21 is its bit 3
TableSpeedMode(x) == ((x \div 131072) % 8) + 8 * ((x \div 2097152) % 2)

TableRate ==
    (0 :> 2048) @@ (1 :> 4096) @@ (2 :> 8192) @@ (3 :> 16384) @@
    (4 :> 2048) @@ (5 :> 4096) @@ (6 :> 8192) @@ (7 :> 16384)

StatusFields ==
    {"trigger", "cms_in_range", "low_battery", "ActiveMK2", "speed_mode",
     "new_epoch"}

\* C3: for a word with speed mode 0..7 decode_trigger returns the rate of the
\* table; for a word with speed mode 8..15 it does not fail and returns a
\* status with every other field and no rate.
C3_RateFromTableOrAbsent ==
    ret.raised # "not called" =>
        LET sm == TableSpeedMode(arg)
        IN  /\ ret.raised = "none"
            /\ StatusFields \subseteq DOMAIN ret.value
            /\ sm <= 7 => /\ "fs" \in DOMAIN ret.value
                          /\ ret.value.fs = TableRate[sm]
            /\ sm >= 8 => "fs" \notin DOMAIN ret.value

\* bit b of x as a boolean
BitOf(x, b) == ((x \div (2 ^ b)) % 2) = 1

\* C6: for every 24-bit word decode_trigger returns trigger = x & 0xFFFF,
\* new_epoch = bit 16, cms_in_range = bit 20, low_battery = bit 22,
\* ActiveMK2 = bit 23 and speed_mode = bit17 + 2*bit18 + 4*bit19 + 8*bit21;
\* for 11141120 (0xAA0000, bits 17, 19, 21, 23) these are trigger 0,
\* new_epoch false, cms_in_range false, low_battery false, ActiveMK2 true,
\* speed_mode 13.
C6_FieldsFollowBitTable ==
    ret.raised # "not called" =>
        /\ ret.raised = "none"
        /\ ret.value.trigger = arg % 65536
        /\ ret.value.new_epoch = BitOf(arg, 16)
        /\ ret.value.cms_in_range = BitOf(arg, 20)
        /\ ret.value.low_battery = BitOf(arg, 22)
        /\ ret.value.ActiveMK2 = BitOf(arg, 23)
        /\ ret.value.speed_mode = TableSpeedMode(arg)
        /\ arg = 11141120 =>
              /\ ret.value.trigger = 0
              /\ ret.value.new_epoch = FALSE
              /\ ret.value.cms_in_range = FALSE
              /\ ret.value.low_battery = FALSE
              /\ ret.value.ActiveMK2 = TRUE
              /\ ret.value.speed_mode = 13

(***************************************************************************)
(* Properties of the rate check (under SpecRate)                           *)
(***************************************************************************)
AcceptedRates == {256, 512, 1024, 2048, 4096, 8192, 16384}

\* C4: the constructor succeeds exactly for the rates 256, 512, 1024, 2048,
\* 4096, 8192 and 16384, and raises ValueError for every other rate.
C4_ExactlyTheDivisorRates ==
    ret.raised # "not called" =>
        /\ ret.raised = "none" <=> arg \in AcceptedRates
        /\ arg \notin AcceptedRates => ret.raised = "ValueError"

\* the constructor has rejected the rate 300, which is within 256..16384
C4_Rejected300 == arg = 300 /\ ret.raised = "ValueError"

(***************************************************************************)
(* Properties of the frame decoder (under SpecFrame)                       *)
(***************************************************************************)
\* C7: decoding the frame the device writes for a matrix of 24-bit samples
\* gives the matrix back; cell (c, m) is the little-endian value of the three
\* bytes at offset m*3*n_channels + c*3, and lies in 0..2^24-1.
C7_DecodeInvertsEncode ==
    ret.raised # "not called" =>
        LET n   == arg.n_channels
            buf == encode_frame(arg.matrix, n, arg.tcp_samples)
        IN  /\ ret.raised = "none"
            /\ ret.value = arg.matrix
            /\ \A c \in 0..(n - 1), m \in 0..(arg.tcp_samples - 1) :
                  LET o == m * 3 * n + c * 3
                      v == ret.value[c + 1][m + 1]
                  IN  /\ v = buf[o + 1] + buf[o + 2] * 256 + buf[o + 3] * 65536
                      /\ 0 <= v /\ v <= 16777215

\* a two-channel frame with the samples 2^23 (bit 23 set) and 2^24-1 has
\* been decoded
C7_DecodedTopBit ==
    /\ ret.raised = "none"
    /\ arg.n_channels = 2
    /\ arg.matrix[2][1] = 8388608
    /\ arg.matrix[1][2] = 16777215
    /\ ret.value[2][1] = 8388608
    /\ ret.value[1][2] = 16777215

(***************************************************************************)
(* Properties of the client (under Spec and FairSpec)                      *)
(***************************************************************************)
Constructed == pc \in {"idle", "reading"}

\* a call of read has returned and no other is in progress
Returned == pc = "idle" /\ reads > 0

GroupOrder == <<"eeg", "ex", "sensors", "jazz", "aib", "trigger">>

\* the groups the configuration asks for, and their widths
Included(g) ==
    CASE g = "eeg"     -> self.eeg_channels # 0
      [] g = "ex"      -> self.ex_included
      [] g = "sensors" -> self.sensors_included
      [] g = "jazz"    -> self.jazz_included
      [] g = "aib"     -> self.aib_included
      [] g = "trigger" -> self.trigger_included

Width(g) ==
    CASE g = "eeg"     -> self.eeg_channels
      [] g = "ex"      -> 8
      [] g = "sensors" -> 7
      [] g = "jazz"    -> 9
      [] g = "aib"     -> 32
      [] g = "trigger" -> 1

WidthIfIncluded(g) == IF Included(g) THEN Width(g) ELSE 0

IncludedGroups == {GroupOrder[i] : i \in {j \in 1..6 : Included(GroupOrder[j])}}

\* the channel indices a slices entry selects in a matrix of n rows
RowsOf(s, n) ==
    IF s.kind = "slice" THEN s.start..(s.stop - 1)
    ELSE {IF s.index < 0 THEN s.index + n ELSE s.index}

\* every time row of a returned group array has ncols columns
HasColumns(r, ncols) ==
    IF r.ndim = 1 THEN Len(r.value) = ncols
    ELSE \A i \in DOMAIN r.value : Len(r.value[i]) = ncols

\* C1: a receive that fails is the last receive of its read; the read then
\* returns normally, with for each configured group the columns of the frames
\* received before (k-1 frames when the k-th receive failed), and when the
\* first receive failed the assembled matrix has n_channels rows and no
\* column.
C1_FailedReceiveEndsRead ==
    Constructed =>
        /\ recvs <= Len(data) + 1
        /\ recvs = Len(data) + 1 =>
              /\ pc = "idle"
              /\ raised = "none"
              /\ result.raised = "none"
              /\ DOMAIN result.value = IncludedGroups
              /\ \A g \in DOMAIN result.value :
                    HasColumns(result.value[g], (recvs - 1) * self.tcp_samples)
              /\ recvs = 1 =>
                    LET matrix == assemble(data, self.n_channels)
                    IN  /\ Len(matrix) = self.n_channels
                        /\ \A c \in 1..self.n_channels : matrix[c] = <<>>

\* the second receive of a read failed and the read returned the one frame
\* received before, to a client with an eeg and a trigger group
C1_FailedAtSecondReceive ==
    /\ pc = "idle"
    /\ recvs = 2
    /\ Len(data) = 1
    /\ result.raised = "none"
    /\ {"eeg", "trigger"} \subseteq DOMAIN result.value
    /\ Len(result.value["trigger"].value) = self.tcp_samples

\* a read all of whose receives gave a full frame has returned
ReturnedAllFrames == Returned /\ recvs = Len(data)

\* C2 as stated: after a read all of whose receives succeeded, the number of
\* columns returned is tcp_samples * ceil(total_samples / tcp_samples).
C2_CountIsCeilOfTotal ==
    ReturnedAllFrames =>
        /\ result.raised = "none"
        /\ Len(data) * self.tcp_samples =
               self.tcp_samples * CeilDiv(total_samples, self.tcp_samples)
        /\ \A g \in DOMAIN result.value :
              HasColumns(result.value[g],
                         self.tcp_samples * CeilDiv(total_samples, self.tcp_samples))

\* C2 as amended: that count is returned when total_samples >= 0; when
\* total_samples < 0 no column is returned.
C2_CountIsCeilOfNonNegativeTotal ==
    ReturnedAllFrames =>
        LET count == IF total_samples >= 0
                     THEN self.tcp_samples * CeilDiv(total_samples, self.tcp_samples)
                     ELSE 0
        IN  /\ result.raised = "none"
            /\ Len(data) * self.tcp_samples = count
            /\ count >= total_samples
            /\ \A g \in DOMAIN result.value : HasColumns(result.value[g], count)

\* a read for 3 samples at 2 samples a frame has returned 4 columns
C2_OvershootByOne ==
    /\ ReturnedAllFrames
    /\ total_samples = 3
    /\ self.tcp_samples = 2
    /\ "eeg" \in DOMAIN result.value
    /\ HasColumns(result.value["eeg"], 4)

\* C5: the groups of slices are those the configuration includes, with the
\* widths EEG = eeg_channels, EX = 8, sensors = 7, jazz = 9, AIB = 32,
\* trigger = 1; the widths sum to n_channels; the index ranges, in the order
\* EEG, EX, sensors, jazz, AIB, trigger, partition 0..n_channels-1; with
\* nothing included n_channels = 0 and there is no group.
C5_GroupsPartitionChannels ==
    Constructed =>
        LET n == self.n_channels
            R(g) == RowsOf(self.slices[g], n)
        IN  /\ DOMAIN self.slices = IncludedGroups
            /\ \A g \in DOMAIN self.slices : Cardinality(R(g)) = Width(g)
            /\ n = WidthIfIncluded("eeg") + WidthIfIncluded("ex")
                   + WidthIfIncluded("sensors") + WidthIfIncluded("jazz")
                   + WidthIfIncluded("aib") + WidthIfIncluded("trigger")
            /\ UNION {R(g) : g \in DOMAIN self.slices} = 0..(n - 1)
            /\ \A i, j \in 1..6 :
                  (i < j /\ Included(GroupOrder[i]) /\ Included(GroupOrder[j])) =>
                      \A x \in R(GroupOrder[i]), y \in R(GroupOrder[j]) : x < y
            /\ IncludedGroups = {} => (n = 0 /\ DOMAIN self.slices = {})

\* a client with all six groups has been constructed
C5_AllSixGroups ==
    /\ Constructed
    /\ DOMAIN self.slices = {"eeg", "ex", "sensors", "jazz", "aib", "trigger"}
    /\ self.n_channels = self.eeg_channels + 57

\* C8: with the trigger group included, read returns under "trigger" the last
\* row of the assembled matrix, whose index n_channels-1 is the running
\* channel count before the trigger group; every other group gets the rows of
\* its own range, in order and with every column, and none of them that row.
C8_TriggerIsLastRow ==
    (Returned /\ self.trigger_included) =>
        LET n == self.n_channels
            running == WidthIfIncluded("eeg") + WidthIfIncluded("ex")
                       + WidthIfIncluded("sensors") + WidthIfIncluded("jazz")
                       + WidthIfIncluded("aib")
        IN  /\ result.raised = "none"
            /\ result.value["trigger"].value = ConcatRow(data, n)
            /\ Len(result.value["trigger"].value) = Len(data) * self.tcp_samples
            /\ RowsOf(self.slices["trigger"], n) = {running}
            /\ running = n - 1
            /\ \A g \in DOMAIN result.value \ {"trigger"} :
                  LET s == self.slices[g]
                  IN  /\ (n - 1) \notin RowsOf(s, n)
                      /\ result.value[g].value =
                             [i \in 1..(s.stop - s.start) |->
                                 ConcatRow(data, s.start + i)]
                      /\ HasColumns(result.value[g], Len(data) * self.tcp_samples)

\* a read of two frames has returned to a client with ex and trigger groups
C8_TwoFramesWithTrigger ==
    /\ Returned
    /\ Len(data) = 2
    /\ {"ex", "trigger"} \subseteq DOMAIN result.value
    /\ result.value["trigger"].value[1] = DeviceSample(self.n_channels - 1, 0)

\* C9: every frame a read decodes starts at a stream offset that is a
\* multiple of the frame size, and row c of it holds samples of channel c.
C9_FramesStartOnFrameBoundary ==
    (Constructed /\ self.buffer_size > 0) =>
        \A i \in DOMAIN frame_pos :
            /\ frame_pos[i] % self.buffer_size = 0
            /\ \A c \in 1..self.n_channels, m \in 1..self.tcp_samples :
                  \E t \in 0..255 : data[i][c][m] = DeviceSample(c - 1, t)

\* ceil(total / tcp_samples) receives, none for total <= 0
MaxReceives(total, tcp_samples) ==
    IF total <= 0 THEN 0 ELSE CeilDiv(total, tcp_samples)

Geometry == <<self.n_channels, self.tcp_samples, self.buffer_size, self.slices>>

\* C10: a read makes at most ceil(total_samples / tcp_samples) receives, none
\* when total_samples <= 0 (and then returns no column); a read in progress
\* returns; n_channels, tcp_samples, buffer_size and slices never change
\* after construction.
C10_ReadTerminatesGeometryFixed ==
    /\ [](Constructed =>
            /\ recvs <= MaxReceives(total_samples, self.tcp_samples)
            /\ (Returned /\ total_samples <= 0) =>
                  /\ recvs = 0
                  /\ result.raised = "none"
                  /\ \A g \in DOMAIN result.value : HasColumns(result.value[g], 0))
    /\ (pc = "reading") ~> (pc = "idle")
    /\ [][Constructed => (Constructed' /\ Geometry' = Geometry)]_vars

\* a second read has returned after two receives
C10_SecondReadTwoReceives ==
    /\ pc = "idle"
    /\ reads = 2
    /\ recvs = 2
    /\ self.sock = "open"

=============================================================================
